---- MODULE Spec2Model ----
(***************************************************************************)
(* State-machine model of src/webgpu-world/src/Main.ts: the asynchronous   *)
(* init(), the GUI callbacks it registers, resetInstance() (the instance   *)
(* pool with its free list of VertexUniform slots) and render() (one tick  *)
(* of the requestAnimationFrame loop).                                     *)
(*                                                                         *)
(* JavaScript runs every handler to completion, so each action below is    *)
(* one uninterrupted run of code: init() is cut at its two awaits, a GUI   *)
(* callback and a tick are one action each.  What render() does inside     *)
(* one tick is kept as the ordered list of calls it made (frameLog).       *)
(* VertexUniform slots are numbered in the order they are constructed.     *)
(* Instance counts are scaled: the slider's 1000..6000 is 1..MaxNum here.  *)
(* Random placement and colours of the objects are left out.               *)
(***************************************************************************)
EXTENDS Integers, Sequences, FiniteSets, TLC

\* ---------------------------------------------------------------- bounds
\* largest instance count the slider can deliver (scaled)
MaxNum == 2
\* ticks the model follows before it stops scheduling new ones
MaxTime == 3
\* ticks followed when the pool is left alone (SpecLong)
LongTime == 100
\* createBuffer calls the device lets fail in one run
MaxFailures == 2

\* ------------------------------------------------------------- constants
\* a vertexUniform reference that is null (or a field not yet assigned)
NULL == 0
\* this.time before line 178 has run
UNDEFINED == -1
\* the per-object index stride, the divisor and the modulus of the spin test
IndexStride == 7
SpinDivisor == 50
SpinModulus == 10
\* cubeScale of the two mesh modes
ModelScale == 4
CubeScale == 2

ShaderFunctions == {"vertex_main", "vertex_main2", "fragment_main"}
NumValues == 1..MaxNum

VARIABLES
    hasWebGPU,        \* 'WebGPURenderingContext' in window
    initPc,           \* where init() stands
    bodyClass,        \* document.body.className
    guiRegistered,    \* the two onFinishChange callbacks are installed
    shaderFetches,    \* how many times the shader file was requested
    library,          \* "undefined", then what createLibrary returned: "null" or "created"
    libraryFns,       \* entry points the created library holds
    pipelinesBuilt,   \* createRenderPipelineState has been called
    listsReady,       \* cubeList and cubeUniformList are arrays (not undefined)
    cubeNum,          \* this.cubeNum
    useModel,         \* this.useModel
    cubeList,         \* this.cubeList: sequence of SceneObjects
    cubeUniformList,  \* this.cubeUniformList: the free list of slots
    created,          \* VertexUniforms constructed so far (slots 1..created)
    poolCreated,      \* the slots resetInstance constructed
    bufferOf,         \* bufferOf[s]: the GPU buffer slot s holds (buffers are numbered)
    buffersMade,      \* createBuffer calls on VertexUniforms that succeeded
    lightHelper,      \* slot of this.lightHelper (NULL before line 161)
    modelLoaded,      \* this.model is loaded and has its vertex buffer
    time,             \* this.time
    tickPending,      \* requestAnimationFrame callbacks not yet run
    colorLoadAction,  \* renderPassDescriptor.colorAttachments[0].loadAction
    depthLoadAction,  \* renderPassDescriptor.depthAttachment.loadAction
    frameLog,         \* the calls of the latest render(), in order
    resetStatus,      \* how the latest resetInstance() ended
    maxRequested      \* largest cubeNum a resetInstance() call was made with

vars == <<hasWebGPU, initPc, bodyClass, guiRegistered, shaderFetches, library, libraryFns,
          pipelinesBuilt, listsReady, cubeNum, useModel, cubeList, cubeUniformList,
          created, poolCreated, bufferOf, buffersMade, lightHelper, modelLoaded,
          time, tickPending, colorLoadAction, depthLoadAction, frameLog,
          resetStatus, maxRequested>>

Max(a, b) == IF a >= b THEN a ELSE b

\* --------------------------------------------------------- resetInstance
\* new SceneObject() with the fields resetInstance sets: rotY and rotX count
\* the += 0.2 and += 0.01 increments render() has applied since.
SceneObject(slot, scale) ==
    [vertexUniform |-> slot, scale |-> scale, rotY |-> 0, rotX |-> 0]

\* faulty variant of ReleaseSlots: the slots of the discarded objects are dropped
ReleaseNothing(i, list, free) == free

\* lines 184-190: every live object's slot goes to the back of the free list
RECURSIVE ReleaseSlots(_, _, _)
ReleaseSlots(i, list, free) ==
    IF i >= Len(list) THEN free
    ELSE ReleaseSlots(i + 1, list, Append(free, list[i + 1].vertexUniform))

\* lines 192-197
cubeScaleOf(um) == IF um THEN ModelScale ELSE CubeScale

\* faulty variant of HasFreeSlot: the free list is never consulted
NeverFreeSlot(free) == FALSE

\* line 212: is a recycled slot available
HasFreeSlot(free) == Len(free) > 0

\* faulty variant of ShiftRest: the head is read but not removed
ShiftKeepsHead(free) == free

\* line 213: Array.shift() leaves the rest of the free list
ShiftRest(free) == Tail(free)

\* line 219 and 225: the finished object
BoundObject(slot, scale) == SceneObject(slot, scale)

\* faulty variant of LoopContinues: the loop stops one object short
LoopStopsShort(i, num) == i + 1 < num

\* line 203: the loop runs while i < cubeNum
LoopContinues(i, num) == i < num

\* faulty variant of ListAtFailure: the object is pushed before its slot is bound
PushedBeforeBind(list, scale) == Append(list, BoundObject(NULL, scale))

\* lines 204-225: the object under construction is pushed only on line 225, so
\* when createBuffer throws on line 217 the list holds the finished objects only
ListAtFailure(list, scale) == list

\* faulty variant of BufferOnReuse: createBuffer is called again for a recycled slot
RecreateOnReuse(buf, made) == made + 1

\* line 213: a slot taken from the free list keeps the buffer it has
BufferOnReuse(buf, made) == buf

\* lines 216-217: a VertexUniform that has been constructed and whose
\* createBuffer call has not returned holds no buffer
NoBuffer == 0

\* lines 203-226.  On line 217 createBuffer throws after line 216 has
\* constructed the VertexUniform: that one is counted, holds no buffer and is
\* bound to no object.  st holds the lists being built, the slot counter, the slots'
\* buffers and how many more buffers the device will create (budget) before
\* createBuffer throws.
RECURSIVE BuildLoop(_, _, _, _)
BuildLoop(i, num, scale, st) ==
    IF ~LoopContinues(i, num) THEN st
    ELSE IF HasFreeSlot(st.free)
         THEN BuildLoop(i + 1, num, scale,
                [st EXCEPT !.list = Append(@, BoundObject(Head(st.free), scale)),
                           !.free = ShiftRest(st.free),
                           !.buffers[Head(st.free)] = BufferOnReuse(@, st.made)])
         ELSE IF st.budget = 0
              THEN [st EXCEPT !.threw = TRUE,
                              !.list = ListAtFailure(@, scale),
                              !.created = @ + 1,
                              !.pool = @ \cup {st.created + 1},
                              !.buffers = Append(@, NoBuffer)]
              ELSE BuildLoop(i + 1, num, scale,
                     [st EXCEPT !.list = Append(@, BoundObject(st.created + 1, scale)),
                                !.created = @ + 1,
                                !.pool = @ \cup {st.created + 1},
                                !.buffers = Append(@, st.made + 1),
                                !.made = @ + 1,
                                !.budget = @ - 1])

\* lines 183-227 on initialised lists: the lists, the slot counter, the pool
\* slots and the buffers the call leaves, and whether it threw
resetInstanceResult(list, free, num, um, cr, pool, bufs, made, budget) ==
    LET st == BuildLoop(0, num, cubeScaleOf(um),
                  [list |-> <<>>, free |-> ReleaseSlots(0, list, free),
                   created |-> cr, pool |-> pool, buffers |-> bufs, made |-> made,
                   budget |-> budget, threw |-> FALSE])
    IN  [list |-> st.list, free |-> st.free, created |-> st.created,
         pool |-> st.pool, buffers |-> st.buffers, made |-> st.made,
         threw |-> st.threw]

\* how many buffers the device may still create during one call; MaxNum is
\* enough for any call, a smaller budget makes createBuffer throw part-way
Budgets == 0..MaxNum

\* the ways one call can end, over what the device allows
resetInstanceResults(list, free, num, um, cr, pool, bufs, made) ==
    {resetInstanceResult(list, free, num, um, cr, pool, bufs, made, b) : b \in Budgets}

\* ---------------------------------------------------------------- render
Ev(op, pass, color, depth, slot, index, geom) ==
    [op |-> op, pass |-> pass, color |-> color, depth |-> depth,
     slot |-> slot, index |-> index, geom |-> geom]
Call(op, pass) == Ev(op, pass, "", "", NULL, -1, "")

\* faulty variant of SpinsY: the per-object offset is left out
SpinsYNoStride(t, i) == (t \div SpinDivisor) % SpinModulus = 0

\* line 242: ((time + i * 7) / 50 << 0) % 10 === 0
SpinsY(t, i) == ((t + i * IndexStride) \div SpinDivisor) % SpinModulus = 0

\* faulty variant of Animate: the loop takes the objects off the front of the
\* list and puts them back at its end in reverse order
AnimateReorders(list, t, cubeLength) ==
    [k \in 1..Len(list) |-> list[Len(list) + 1 - k]]

\* lines 240-248: the objects after the animation loop over i < cubeLength
Animate(list, t, cubeLength) ==
    [k \in 1..Len(list) |->
        IF k - 1 >= cubeLength THEN list[k]
        ELSE IF SpinsY(t, k - 1) THEN [list[k] EXCEPT !.rotY = @ + 1]
                                 ELSE [list[k] EXCEPT !.rotX = @ + 1]]

AnimateLog(list, t, cubeLength) ==
    [k \in 1..cubeLength |->
        Ev(IF SpinsY(t, k - 1) THEN "rotationY" ELSE "rotationX",
           0, "", "", list[k].vertexUniform, k - 1, "")]

\* faulty variant of Pass1LoadAction: lines 262-263 left out, so the descriptor
\* keeps what the previous pass set
KeepLoadAction(prev) == prev

\* lines 262-263: the load action the descriptor holds when pass 1's encoder is made
Pass1LoadAction(prev) == "clear"

\* lines 292-293: the load action the descriptor holds when pass 2's encoder is made
Pass2LoadAction(prev) == "load"

\* lines 267-272
Geometry(um) == IF um THEN "model" ELSE "cube"

\* faulty variant of DrawGeometry: the draw always covers the cube's vertices
DrawCubeAlways(geometry) == "cube"

\* line 287: the geometry whose numVertices the draw covers
DrawGeometry(geometry) == geometry

\* faulty variant of DrawCalls: the slot's buffer is bound and drawn before the
\* slot is written
DrawBeforeWrite(slot, i, geometry) ==
    << Ev("setVertexBuffer1", 1, "", "", slot, i, ""),
       Ev("drawPrimitives", 1, "", "", slot, i, geometry),
       Ev("writeUniform", 1, "", "", slot, i, "") >>

\* lines 281-287: the object's slot is written (mvpMatrix, modelMatrix,
\* directionalLightDirection), its buffer is bound at index 1, one draw is issued
DrawCalls(slot, i, geometry) ==
    << Ev("writeUniform", 1, "", "", slot, i, ""),
       Ev("setVertexBuffer1", 1, "", "", slot, i, ""),
       Ev("drawPrimitives", 1, "", "", slot, i, DrawGeometry(geometry)) >>

\* lines 275-288: the calls of the pass-1 loop from index i on; obj.vertexUniform
\* being null makes line 282 throw
RECURSIVE DrawLoop(_, _, _, _)
DrawLoop(i, list, cubeLength, geometry) ==
    IF i >= cubeLength THEN <<>>
    ELSE IF list[i + 1].vertexUniform = NULL THEN <<Call("throw", 1)>>
    ELSE DrawCalls(list[i + 1].vertexUniform, i, geometry)
         \o DrawLoop(i + 1, list, cubeLength, geometry)

Last(s) == s[Len(s)]
Threw(log) == log # <<>> /\ Last(log).op = "throw"

\* lines 230-259: up to the acquisition of the drawable; a null drawable makes
\* line 259 (drawable.texture) throw
PrepareLog(list, t, cubeLength, drawableOk) ==
    <<Call("stats.begin", 0)>> \o AnimateLog(list, t, cubeLength)
    \o <<Call("upDate", 0), Call("createCommandBuffer", 0), Call("nextDrawable", 0)>>
    \o (IF drawableOk THEN <<>> ELSE <<Call("throw", 0)>>)

\* lines 261-289
Pass1Log(list, cubeLength, um, cla, dla) ==
    << Ev("createEncoder", 1, Pass1LoadAction(cla), Pass1LoadAction(dla), NULL, -1, ""),
       Ev("setVertexBuffer0", 1, "", "", NULL, -1, Geometry(um)) >>
    \o DrawLoop(0, list, cubeLength, Geometry(um))

\* lines 291-306
Pass2Log(lh, cla, dla) ==
    << Ev("createEncoder", 2, Pass2LoadAction(cla), Pass2LoadAction(dla), NULL, -1, ""),
       Ev("setVertexBuffer0", 2, "", "", NULL, -1, "cube"),
       Ev("writeUniform", 2, "", "", lh, -1, ""),
       Ev("setVertexBuffer1", 2, "", "", lh, -1, ""),
       Ev("drawPrimitives", 2, "", "", lh, -1, "cube"),
       Call("endEncoding", 2) >>

\* faulty variant of SubmitLog: the next tick is requested before the frame is
\* presented and committed
SubmitSchedulesFirst ==
    << Call("requestAnimationFrame", 0), Call("presentDrawable", 0),
       Call("commit", 0), Call("stats.end", 0) >>

\* lines 308-314
SubmitLog ==
    << Call("presentDrawable", 0), Call("commit", 0), Call("stats.end", 0),
       Call("requestAnimationFrame", 0) >>

\* faulty variant of AdvanceTime: the counter wraps to 0 after two ticks
AdvanceTimeWraps(t) == (t + 1) % 2

\* line 250: this.time += 1
AdvanceTime(t) == t + 1

\* lines 229-315: one call of render() at counter value t.  The result holds the
\* objects, the descriptor's load actions, the calls made, and whether the call
\* reached requestAnimationFrame.
renderResult(list, t, um, lh, cla, dla, drawableOk) ==
    LET cubeLength == Len(list)
        pre   == PrepareLog(list, t, cubeLength, drawableOk)
        p1    == Pass1Log(list, cubeLength, um, cla, dla)
        cla1  == Pass1LoadAction(cla)
        dla1  == Pass1LoadAction(dla)
        base  == [list |-> Animate(list, t, cubeLength), time |-> AdvanceTime(t)]
    IN  IF Threw(pre)
        THEN base @@ [color |-> cla, depth |-> dla, log |-> pre, scheduled |-> FALSE]
        ELSE IF Threw(p1)
        THEN base @@ [color |-> cla1, depth |-> dla1, log |-> pre \o p1,
                      scheduled |-> FALSE]
        ELSE base @@ [color |-> Pass2LoadAction(cla1), depth |-> Pass2LoadAction(dla1),
                      log |-> pre \o p1 \o <<Call("endEncoding", 1)>>
                              \o Pass2Log(lh, cla1, dla1) \o SubmitLog,
                      scheduled |-> TRUE]

\* --------------------------------------------------------------- actions
Init ==
    /\ hasWebGPU \in BOOLEAN
    /\ initPc = "notStarted"
    /\ bodyClass = ""
    /\ guiRegistered = FALSE
    /\ shaderFetches = 0
    /\ library = "undefined"
    /\ libraryFns = {}
    /\ pipelinesBuilt = FALSE
    /\ listsReady = FALSE
    /\ cubeNum = 0
    /\ useModel = FALSE
    /\ cubeList = <<>>
    /\ cubeUniformList = <<>>
    /\ created = 0
    /\ poolCreated = {}
    /\ bufferOf = <<>>
    /\ buffersMade = 0
    /\ lightHelper = NULL
    /\ modelLoaded = FALSE
    /\ time = UNDEFINED
    /\ tickPending = 0
    /\ colorLoadAction = ""
    /\ depthLoadAction = ""
    /\ frameLog = <<>>
    /\ resetStatus = "none"
    /\ maxRequested = 0

\* faulty variant of WebGPUMissing: the capability check is left out
CheckSkipped(has) == FALSE

\* line 54: !('WebGPURenderingContext' in window)
WebGPUMissing(has) == ~has

\* faulty variant of EntryPointMissing: vertex_main2 is not tested
SecondVertexUnchecked(fns) ==
    \/ "vertex_main" \notin fns
    \/ "fragment_main" \notin fns

\* line 103: !vertexFunction || !vertexFunction2 || !fragmentFunction
EntryPointMissing(fns) ==
    \/ "vertex_main" \notin fns
    \/ "vertex_main2" \notin fns
    \/ "fragment_main" \notin fns

\* the device fails at most MaxFailures createBuffer calls in a run; each
\* failure leaves one constructed VertexUniform without a buffer
MayFail(cr, made) == cr - made < MaxFailures
WithinFailures(r) == r.created - r.made <= MaxFailures

\* lines 183-227 as called with this.cubeNum = num and this.useModel = um already
\* assigned: on lists that are still undefined line 184 throws a TypeError
resetInstance(num, um) ==
    /\ maxRequested' = Max(maxRequested, num)
    /\ IF ~listsReady
       THEN /\ resetStatus' = "threw"
            /\ UNCHANGED <<cubeList, cubeUniformList, created, poolCreated,
                           bufferOf, buffersMade>>
       ELSE \E r \in resetInstanceResults(cubeList, cubeUniformList, num, um,
                                          created, poolCreated, bufferOf,
                                          buffersMade) :
                /\ WithinFailures(r)
                /\ cubeList' = r.list
                /\ cubeUniformList' = r.free
                /\ created' = r.created
                /\ poolCreated' = r.pool
                /\ bufferOf' = r.buffers
                /\ buffersMade' = r.made
                /\ resetStatus' = IF r.threw THEN "threw" ELSE "returned"

\* lines 47-97: new Main() runs init() up to the await of the shader fetch.
\* panelNum and panelUseModel are the GUIPanel's defaults.
InitStart ==
    /\ initPc = "notStarted"
    /\ IF WebGPUMissing(hasWebGPU)
       THEN /\ bodyClass' = "error"
            /\ initPc' = "noWebGPU"
            /\ UNCHANGED <<guiRegistered, cubeNum, useModel, shaderFetches>>
       ELSE \E panelNum \in NumValues, panelUseModel \in BOOLEAN :
            /\ guiRegistered' = TRUE
            /\ cubeNum' = panelNum
            /\ useModel' = panelUseModel
            /\ shaderFetches' = shaderFetches + 1
            /\ initPc' = "awaitShader"
            /\ UNCHANGED bodyClass
    /\ UNCHANGED <<hasWebGPU, library, libraryFns, pipelinesBuilt, listsReady, cubeList,
                   cubeUniformList, created, poolCreated, bufferOf, buffersMade,
                   lightHelper, modelLoaded,
                   time, tickPending, colorLoadAction, depthLoadAction, frameLog,
                   resetStatus, maxRequested>>

\* faulty variant of HelperSlot: the helper is given the pool's latest slot
HelperSharesSlot(cr) == cr

\* lines 159-161: the light helper gets a VertexUniform of its own, the next
\* one constructed after cr others
HelperSlot(cr) == cr + 1

\* lines 97-165: from the fetched shader to the await of the mesh load.
\* libOk: createLibrary returned a library (on null, line 99 throws);
\* fns: the entry points it holds; helperOk: whether the createBuffer call of
\* the light helper succeeds.
InitAfterShader ==
    /\ initPc = "awaitShader"
    /\ \E libOk \in BOOLEAN, fns \in SUBSET ShaderFunctions, helperOk \in BOOLEAN :
        IF ~libOk
        THEN /\ initPc' = "threw"
             /\ library' = "null"
             /\ UNCHANGED <<libraryFns, pipelinesBuilt, listsReady, cubeList,
                            cubeUniformList, created, poolCreated, bufferOf,
                            buffersMade, lightHelper, resetStatus, maxRequested>>
        ELSE IF EntryPointMissing(fns)
        THEN /\ initPc' = "noShader"
             /\ library' = "created"
             /\ libraryFns' = fns
             /\ UNCHANGED <<pipelinesBuilt, listsReady, cubeList, cubeUniformList,
                            created, poolCreated, bufferOf, buffersMade,
                            lightHelper, resetStatus, maxRequested>>
        ELSE \E r \in resetInstanceResults(<<>>, <<>>, cubeNum, useModel,
                                           created, poolCreated, bufferOf,
                                           buffersMade) :
                 /\ WithinFailures(r)
                 /\ library' = "created"
                 /\ libraryFns' = fns
                 /\ pipelinesBuilt' = TRUE
                 /\ listsReady' = TRUE
                 /\ maxRequested' = Max(maxRequested, cubeNum)
                 /\ cubeList' = r.list
                 /\ cubeUniformList' = r.free
                 /\ poolCreated' = r.pool
                 /\ resetStatus' = IF r.threw THEN "threw" ELSE "returned"
                 /\ IF r.threw
                    THEN /\ initPc' = "threw"
                         /\ created' = r.created
                         /\ bufferOf' = r.buffers
                         /\ buffersMade' = r.made
                         /\ UNCHANGED lightHelper
                    ELSE IF ~helperOk
                    THEN /\ initPc' = "threw"
                         /\ MayFail(r.created, r.made)
                         /\ created' = r.created + 1
                         /\ bufferOf' = Append(r.buffers, NoBuffer)
                         /\ buffersMade' = r.made
                         /\ UNCHANGED lightHelper
                    ELSE /\ initPc' = "awaitModel"
                         /\ created' = r.created + 1
                         /\ bufferOf' = Append(r.buffers, r.made + 1)
                         /\ buffersMade' = r.made + 1
                         /\ lightHelper' = HelperSlot(r.created)
    /\ UNCHANGED <<hasWebGPU, bodyClass, guiRegistered, shaderFetches, cubeNum,
                   useModel, modelLoaded, time, tickPending, colorLoadAction,
                   depthLoadAction, frameLog>>

\* VertexUniform's setters (mvpMatrix, modelMatrix, directionalLightDirection):
\* the fields are written in place, the slot keeps its buffer
BufferAfterWrite(buf) == buf

\* lines 281-284 and 302-303: the buffers after the writes a call of render() made
WrittenBuffers(bufs, log) ==
    [s \in 1..Len(bufs) |->
        IF \E k \in 1..Len(log) : log[k].op = "writeUniform" /\ log[k].slot = s
        THEN BufferAfterWrite(bufs[s]) ELSE bufs[s]]

\* the state a call of render() at counter value t leaves; pending is the
\* number of scheduled callbacks when the call starts
render(t, pending, drawableOk) ==
    \E r \in {renderResult(cubeList, t, useModel, lightHelper,
                           colorLoadAction, depthLoadAction, drawableOk)} :
        /\ cubeList' = r.list
        /\ time' = r.time
        /\ colorLoadAction' = r.color
        /\ depthLoadAction' = r.depth
        /\ frameLog' = r.log
        /\ bufferOf' = WrittenBuffers(bufferOf, r.log)
        /\ tickPending' = IF r.scheduled THEN pending + 1 ELSE pending

\* faulty variant of InitResumes: a failed mesh load is swallowed
LoadErrorIgnored(loadOk) == TRUE

\* line 165: await resumes init only when loadModel resolved; a rejection is
\* rethrown out of init
InitResumes(loadOk) == loadOk

\* lines 165-180: the mesh load settles; on success init creates the mesh's
\* vertex buffer, sets time = 0 and makes the first call of render()
InitAfterModel ==
    /\ initPc = "awaitModel"
    /\ \E loadOk \in BOOLEAN, drawableOk \in BOOLEAN :
        IF ~InitResumes(loadOk)
        THEN /\ initPc' = "threw"
             /\ UNCHANGED <<modelLoaded, cubeList, time, tickPending, bufferOf,
                            colorLoadAction, depthLoadAction, frameLog>>
        ELSE /\ modelLoaded' = loadOk
             /\ render(0, tickPending, drawableOk)
             /\ initPc' = IF tickPending' > tickPending THEN "done" ELSE "threw"
    /\ UNCHANGED <<hasWebGPU, bodyClass, guiRegistered, shaderFetches, library,
                   libraryFns,
                   pipelinesBuilt, listsReady, cubeNum, useModel, cubeUniformList,
                   created, poolCreated, buffersMade, lightHelper, resetStatus,
                   maxRequested>>

\* line 314: a requestAnimationFrame callback runs render(); the model follows
\* the loop while the counter is below limit
tick(limit) ==
    /\ tickPending > 0
    /\ time < limit
    /\ \E drawableOk \in BOOLEAN : render(time, tickPending - 1, drawableOk)
    /\ UNCHANGED <<hasWebGPU, initPc, bodyClass, guiRegistered, shaderFetches,
                   library, libraryFns, pipelinesBuilt, listsReady, cubeNum, useModel,
                   cubeUniformList, created, poolCreated, buffersMade, lightHelper,
                   modelLoaded, resetStatus, maxRequested>>

\* lines 70-73: the instance slider's onFinishChange
OnNumChange ==
    /\ guiRegistered
    /\ \E value \in NumValues :
        /\ cubeNum' = value
        /\ resetInstance(value, useModel)
    /\ UNCHANGED <<hasWebGPU, initPc, bodyClass, guiRegistered, shaderFetches,
                   library, libraryFns, pipelinesBuilt, listsReady, useModel, lightHelper,
                   modelLoaded, time, tickPending, colorLoadAction,
                   depthLoadAction, frameLog>>

\* lines 76-79: the mesh-mode checkbox's onFinishChange
OnUseModelChange ==
    /\ guiRegistered
    /\ \E value \in BOOLEAN :
        /\ useModel' = value
        /\ resetInstance(cubeNum, value)
    /\ UNCHANGED <<hasWebGPU, initPc, bodyClass, guiRegistered, shaderFetches,
                   library, libraryFns, pipelinesBuilt, listsReady, cubeNum, lightHelper,
                   modelLoaded, time, tickPending, colorLoadAction,
                   depthLoadAction, frameLog>>

Tick == tick(MaxTime)

LongTick == tick(LongTime)

Next ==
    \/ InitStart
    \/ InitAfterShader
    \/ InitAfterModel
    \/ Tick
    \/ OnNumChange
    \/ OnUseModelChange

Spec == Init /\ [][Next]_vars

\* a run on a page with WebGPU in which the UI is never touched
InitFresh == Init /\ hasWebGPU

NextLong ==
    \/ InitStart
    \/ InitAfterShader
    \/ InitAfterModel
    \/ LongTick

SpecLong == InitFresh /\ [][NextLong]_vars

\* ------------------------------------------------------------ properties
LiveSlots == {cubeList[k].vertexUniform : k \in 1..Len(cubeList)}
FreeSlots == {cubeUniformList[k] : k \in 1..Len(cubeUniformList)}
\* the pool's slots: the VertexUniforms resetInstance constructed and whose
\* buffer was created (a createBuffer call that throws yields no slot)
PoolSlots == {s \in poolCreated : bufferOf[s] # NoBuffer}
\* the VertexUniforms whose createBuffer call threw
Bufferless == {s \in 1..Len(bufferOf) : bufferOf[s] = NoBuffer}
Calls(log, op, pass) == SelectSeq(log, LAMBDA e : e.op = op /\ e.pass = pass)
TickCompleted(log) == log # <<>> /\ Last(log).op = "requestAnimationFrame"
DrawableUnavailable(log) ==
    /\ Len(log) >= 2
    /\ Last(log).op = "throw"
    /\ log[Len(log) - 1].op = "nextDrawable"

\* C1: once a resetInstance call with requested count N has returned, cubeList
\* holds exactly N objects and each of them has a non-null vertexUniform.
C1_ResetDeliversCount ==
    resetStatus = "returned" =>
        /\ Len(cubeList) = cubeNum
        /\ \A k \in 1..Len(cubeList) : cubeList[k].vertexUniform # NULL

\* a call that returned after the pool had shrunk: objects are live and
\* recycled slots wait on the free list
C1_Witness ==
    /\ resetStatus = "returned"
    /\ Len(cubeList) = 1
    /\ Len(cubeUniformList) >= 1
    /\ maxRequested >= 2

\* C2: no two distinct objects of cubeList reference the same slot.
C2_NoSharedSlot ==
    \A j, k \in 1..Len(cubeList) :
        j # k => cubeList[j].vertexUniform # cubeList[k].vertexUniform

\* a full list rebuilt from recycled slots (the first object no longer holds
\* the first slot)
C2_Witness ==
    /\ Len(cubeList) >= 2
    /\ cubeList[1].vertexUniform # 1
    /\ resetStatus = "returned"

\* C3: the free list and the slots bound to live objects partition the pool
\* slots ever created, and the free list holds no slot twice.  A VertexUniform
\* whose createBuffer threw is no slot: it is bound to nothing and on no list.
C3_Partition ==
    /\ LiveSlots \cup FreeSlots = PoolSlots
    /\ Bufferless \cap (LiveSlots \cup FreeSlots) = {}
    /\ LiveSlots \cap FreeSlots = {}
    /\ Cardinality(FreeSlots) = Len(cubeUniformList)

\* both parts of the partition are inhabited
C3_Witness ==
    /\ Cardinality(PoolSlots) >= 2
    /\ Len(cubeUniformList) >= 1
    /\ Len(cubeList) >= 1
    /\ time >= 1

\* C4: a step constructs a VertexUniform for the pool only when it leaves the
\* free list empty, and the number of pool slots created never exceeds the
\* largest count requested.
C4_Recycling ==
    [][ /\ (poolCreated' # poolCreated => cubeUniformList' = <<>>)
        /\ Cardinality(PoolSlots') <= maxRequested' ]_vars

\* N1, then N2 < N1, then N1 again: the list is back at two objects, built
\* from recycled slots, and two slots exist
C4_Witness ==
    /\ Len(cubeList) = 2
    /\ cubeList[1].vertexUniform \notin {NULL, 1}
    /\ Cardinality(PoolSlots) = 2
    /\ Bufferless = {}
    /\ maxRequested = 2

\* C5: whenever pass 1's encoder is created both load actions are clear, and
\* whenever pass 2's encoder is created both are load.
C5_LoadActions ==
    \A k \in 1..Len(frameLog) :
        frameLog[k].op = "createEncoder" =>
            /\ frameLog[k].pass = 1 =>
                   frameLog[k].color = "clear" /\ frameLog[k].depth = "clear"
            /\ frameLog[k].pass # 1 =>
                   frameLog[k].color = "load" /\ frameLog[k].depth = "load"

\* a tick after the first one has encoded both passes
C5_Witness ==
    /\ time >= 2
    /\ Len(Calls(frameLog, "createEncoder", 1)) = 1
    /\ Len(Calls(frameLog, "createEncoder", 2)) = 1

\* C6: a tick on which no drawable is available is dropped without ending the
\* loop: the next tick is still scheduled.
C6_DroppedFrameContinues ==
    DrawableUnavailable(frameLog) => tickPending > 0

\* C7: without WebGPU, init sets the page's error state and the loop is never
\* entered: render is never called and no tick is scheduled.
C7_NoWebGPU ==
    (~hasWebGPU /\ initPc # "notStarted") =>
        /\ initPc = "noWebGPU"
        /\ bodyClass = "error"
        /\ time = UNDEFINED
        /\ frameLog = <<>>
        /\ tickPending = 0
        /\ shaderFetches = 0

\* init has run on a page without WebGPU
C7_Witness ==
    /\ ~hasWebGPU
    /\ initPc = "noWebGPU"
    /\ bodyClass = "error"

\* C8: when the library lacks a required entry point, init stops before any
\* pipeline is built, the shader is not fetched again and the loop is never
\* entered.
C8_MissingEntryPoint ==
    (library = "created" /\ libraryFns # ShaderFunctions) =>
        /\ initPc = "noShader"
        /\ ~pipelinesBuilt
        /\ shaderFetches = 1
        /\ time = UNDEFINED
        /\ frameLog = <<>>
        /\ tickPending = 0

\* the library came back with vertex_main and fragment_main but no vertex_main2
C8_Witness ==
    /\ library = "created"
    /\ libraryFns = {"vertex_main", "fragment_main"}
    /\ initPc = "noShader"

\* C9: whenever init has aborted on a fatal startup error (no WebGPU, or a
\* missing shader entry point), the page shows the error state.
C9_FatalErrorsReported ==
    initPc \in {"noWebGPU", "noShader"} => bodyClass = "error"

\* C10: a tick sees one pool throughout: its animation loop and its pass-1 draw
\* loop cover exactly the objects live when it started, in order, with the
\* geometry selected by useModel at its start; the tick itself changes neither
\* the count nor the mode, and a configuration change never alters a tick's calls.
C10_ResizeBetweenTicks ==
    [][ /\ time' # time =>
            LET log   == frameLog'
                anim  == SelectSeq(log, LAMBDA e : e.op \in {"rotationY", "rotationX"})
                draws == Calls(log, "drawPrimitives", 1)
                binds == Calls(log, "setVertexBuffer0", 1)
                geom  == IF useModel THEN "model" ELSE "cube"
            IN  /\ Len(anim) = Len(cubeList)
                /\ \A k \in 1..Len(anim) :
                       anim[k].index = k - 1 /\ anim[k].slot = cubeList[k].vertexUniform
                /\ TickCompleted(log) =>
                       /\ Len(draws) = Len(cubeList)
                       /\ \A k \in 1..Len(draws) :
                              /\ draws[k].index = k - 1
                              /\ draws[k].slot = cubeList[k].vertexUniform
                              /\ draws[k].geom = geom
                       /\ Len(binds) = 1 /\ binds[1].geom = geom
                /\ Len(cubeList') = Len(cubeList)
                /\ cubeNum' = cubeNum
                /\ useModel' = useModel
        /\ (cubeNum' # cubeNum \/ useModel' # useModel) =>
               (time' = time /\ frameLog' = frameLog) ]_vars

\* a tick has drawn, in mesh mode, a pool that was rebuilt after an earlier tick
C10_Witness ==
    /\ time >= 2
    /\ TickCompleted(frameLog)
    /\ useModel
    /\ Len(cubeList) >= 2
    /\ cubeList[1].rotY = 1
    /\ Len(Calls(frameLog, "drawPrimitives", 1)) = Len(cubeList)

\* C11: the mesh is loaded before the first tick runs: once render has been
\* called the mesh is loaded, so whenever a tick binds the mesh as the pass-1
\* geometry it is a loaded one, also when mesh mode was switched on before the
\* load had finished.
C11_MeshLoadedBeforeLoop ==
    /\ (time # UNDEFINED \/ frameLog # <<>> \/ tickPending > 0) => modelLoaded
    /\ \A k \in 1..Len(frameLog) :
           (frameLog[k].op \in {"setVertexBuffer0", "drawPrimitives"}
               /\ frameLog[k].geom = "model") => modelLoaded

\* the first tick drew the mesh on a pool that the UI rebuilt in mesh mode
\* while init was waiting for the load
C11_Witness ==
    /\ time = 1
    /\ TickCompleted(frameLog)
    /\ Len(cubeList) >= 2
    /\ cubeList[1].vertexUniform # 1
    /\ cubeList[1].scale = ModelScale
    /\ \E k \in 1..Len(frameLog) :
           frameLog[k].op = "setVertexBuffer0" /\ frameLog[k].geom = "model"

\* C12 (under SpecLong, where the pool is never rebuilt): on every tick each
\* object receives exactly one increment, the Y one exactly when
\* floor((t + index * 7) / 50) mod 10 = 0 for the counter value t of that tick;
\* the object at index 0 has min(n, 50) Y-increments and max(n - 50, 0)
\* X-increments after n ticks, that is 50 and 50 after 100 ticks.
C12_SpinBranches ==
    [][ time' # time =>
            LET t == IF time = UNDEFINED THEN 0 ELSE time
            IN  /\ Len(cubeList') = Len(cubeList)
                /\ \A k \in 1..Len(cubeList) :
                       LET dY == cubeList'[k].rotY - cubeList[k].rotY
                           dX == cubeList'[k].rotX - cubeList[k].rotX
                       IN  /\ dY \in {0, 1} /\ dX \in {0, 1}
                           /\ dY + dX = 1
                           /\ dY = 1 <=> ((t + (k - 1) * 7) \div 50) % 10 = 0
                /\ Len(cubeList') >= 1 =>
                       /\ cubeList'[1].rotY = (IF time' <= 50 THEN time' ELSE 50)
                       /\ cubeList'[1].rotX = (IF time' <= 50 THEN 0 ELSE time' - 50)
                       /\ time' = 100 =>
                              cubeList'[1].rotY = 50 /\ cubeList'[1].rotX = 50 ]_vars

\* one hundred ticks have run in cube mode on an untouched pool
C12_Witness ==
    /\ time = 100
    /\ ~useModel
    /\ Len(cubeList) >= 2
    /\ cubeList[1].rotY = 50 /\ cubeList[1].rotX = 50
    /\ cubeList[2].rotY = 43 /\ cubeList[2].rotX = 57

\* position of the call op of pass in a log that holds it once
Pos(log, op, pass) ==
    CHOOSE k \in 1..Len(log) : log[k].op = op /\ log[k].pass = pass
Once(log, op, pass) == Len(Calls(log, op, pass)) = 1

\* C13: a tick that runs to its end makes its calls in the order begin, animate,
\* acquire, pass 1 (ended before pass 2's encoder is created), pass 2, present,
\* commit of the one command buffer, and requests the next tick exactly once, as
\* its last call; at most one tick is pending at any time.
C13_PhaseOrder ==
    /\ tickPending \in {0, 1}
    /\ tickPending = 1 => TickCompleted(frameLog)
    /\ Len(Calls(frameLog, "requestAnimationFrame", 0)) <= 1
    /\ \A k \in 1..Len(frameLog) :
           frameLog[k].op = "requestAnimationFrame" => k = Len(frameLog)
    /\ frameLog # <<>> => frameLog[1].op = "stats.begin"
    /\ TickCompleted(frameLog) =>
           /\ Once(frameLog, "createCommandBuffer", 0)
           /\ Once(frameLog, "nextDrawable", 0)
           /\ Once(frameLog, "createEncoder", 1)
           /\ Once(frameLog, "endEncoding", 1)
           /\ Once(frameLog, "createEncoder", 2)
           /\ Once(frameLog, "endEncoding", 2)
           /\ Once(frameLog, "presentDrawable", 0)
           /\ Once(frameLog, "commit", 0)
           /\ Pos(frameLog, "createCommandBuffer", 0) < Pos(frameLog, "nextDrawable", 0)
           /\ Pos(frameLog, "nextDrawable", 0) < Pos(frameLog, "createEncoder", 1)
           /\ Pos(frameLog, "createEncoder", 1) < Pos(frameLog, "endEncoding", 1)
           /\ Pos(frameLog, "endEncoding", 1) < Pos(frameLog, "createEncoder", 2)
           /\ Pos(frameLog, "createEncoder", 2) < Pos(frameLog, "endEncoding", 2)
           /\ Pos(frameLog, "endEncoding", 2) < Pos(frameLog, "presentDrawable", 0)
           /\ Pos(frameLog, "presentDrawable", 0) < Pos(frameLog, "commit", 0)
           /\ Pos(frameLog, "commit", 0) < Pos(frameLog, "requestAnimationFrame", 0)
           /\ \A k \in 1..Len(frameLog) :
                  /\ frameLog[k].op \in {"rotationY", "rotationX"} =>
                         k < Pos(frameLog, "createCommandBuffer", 0)
                  /\ frameLog[k].pass = 1 =>
                         /\ k >= Pos(frameLog, "createEncoder", 1)
                         /\ k <= Pos(frameLog, "endEncoding", 1)
                  /\ frameLog[k].pass = 2 =>
                         /\ k >= Pos(frameLog, "createEncoder", 2)
                         /\ k <= Pos(frameLog, "endEncoding", 2)

\* a later tick ran to its end and left one tick pending
C13_Witness ==
    /\ time >= 3
    /\ TickCompleted(frameLog)
    /\ tickPending = 1
    /\ Len(Calls(frameLog, "drawPrimitives", 1)) >= 2

\* C14: the counter is undefined until the loop is entered, is 1 after the first
\* render (it started at 0), grows by exactly 1 on every later tick, and no
\* other step (a count change, a mode toggle, a step of init) changes it.
C14_TimeMonotonic ==
    [][ /\ time' # time =>
            /\ frameLog' # <<>> /\ frameLog'[1].op = "stats.begin"
            /\ IF time = UNDEFINED
               THEN time' = 1 /\ initPc = "awaitModel"
               ELSE time' = time + 1 /\ tickPending' <= tickPending
        /\ (cubeNum' # cubeNum \/ useModel' # useModel
              \/ resetStatus' # resetStatus \/ maxRequested' # maxRequested
              \/ cubeUniformList' # cubeUniformList) => time' = time
        /\ time' >= time ]_vars

\* the counter kept its value of 2 across a rebuild of the pool
C14_Witness ==
    /\ time = 2
    /\ Len(cubeList) >= 1
    /\ cubeList[1].rotY = 0
    /\ cubeList[1].rotX = 0
    /\ resetStatus = "returned"

\* C15: in pass 1 of a tick every object live at its start gets, in pool order,
\* one write of its slot, then the bind of that slot's buffer, then one draw;
\* over the whole tick each live slot is written exactly once and no slot of
\* the free list is written, bound or drawn.
C15_OneDrawPerObject ==
    [][ (time' # time /\ TickCompleted(frameLog')) =>
            LET log   == frameLog'
                first == Pos(log, "setVertexBuffer0", 1)
                n     == Len(cubeList)
            IN  /\ Pos(log, "endEncoding", 1) = first + 3 * n + 1
                /\ \A k \in 1..n :
                       LET w == log[first + 3 * k - 2]
                           b == log[first + 3 * k - 1]
                           d == log[first + 3 * k]
                           slot == cubeList[k].vertexUniform
                       IN  /\ w.op = "writeUniform" /\ w.slot = slot /\ w.index = k - 1
                           /\ b.op = "setVertexBuffer1" /\ b.slot = slot
                           /\ d.op = "drawPrimitives" /\ d.slot = slot
                           /\ w.pass = 1 /\ b.pass = 1 /\ d.pass = 1
                           /\ Len(SelectSeq(log, LAMBDA e :
                                  e.op = "writeUniform" /\ e.slot = slot)) = 1
                           /\ Len(SelectSeq(log, LAMBDA e :
                                  e.op = "drawPrimitives" /\ e.slot = slot)) = 1
                /\ \A j \in 1..Len(log) :
                       log[j].op \in {"writeUniform", "setVertexBuffer1", "drawPrimitives"}
                           => \A f \in 1..Len(cubeUniformList) :
                                  log[j].slot # cubeUniformList[f] ]_vars

\* a tick drew two live objects bound to recycled slots
C15_Witness ==
    /\ time >= 2
    /\ TickCompleted(frameLog)
    /\ Len(cubeList) = 2
    /\ cubeList[1].vertexUniform \notin {NULL, 1}
    /\ cubeList[2].rotY >= 1
    /\ Len(Calls(frameLog, "writeUniform", 1)) = 2

\* C16: every slot has one buffer, made when the slot is constructed; no step
\* (a rebuild that recycles the slot, a tick that writes it) gives a slot another
\* buffer or makes a buffer without constructing a slot.  A VertexUniform whose
\* createBuffer threw never gets a buffer and is never bound or recycled.
C16_BufferIdentity ==
    [][ /\ Len(bufferOf') = created'
        /\ buffersMade' = created' - Cardinality(Bufferless')
        /\ \A s \in 1..Len(bufferOf) :
               s <= Len(bufferOf') /\ bufferOf'[s] = bufferOf[s]
        /\ \A s, u \in 1..Len(bufferOf') :
               (s # u /\ bufferOf'[s] # NoBuffer) => bufferOf'[s] # bufferOf'[u]
        /\ \A s \in LiveSlots' \cup FreeSlots' : bufferOf'[s] # NoBuffer ]_vars

\* a recycled slot heads the live list and ticks have written it
C16_Witness ==
    /\ time >= 2
    /\ TickCompleted(frameLog)
    /\ Len(cubeList) >= 2
    /\ cubeList[1].vertexUniform \notin {NULL, 1}
    /\ cubeList[1].rotY >= 1
    /\ bufferOf[cubeList[1].vertexUniform] = cubeList[1].vertexUniform

\* C17: after a resetInstance call that was cut short by a failing createBuffer,
\* every object in cubeList has a non-null slot, no slot is bound to two
\* objects, and every pool slot created so far is bound to a live object or on
\* the free list (and not both); the VertexUniform whose createBuffer threw is
\* on neither.
C17_ConsistentAfterFailure ==
    (resetStatus = "threw" /\ listsReady) =>
        /\ \A k \in 1..Len(cubeList) : cubeList[k].vertexUniform # NULL
        /\ \A j, k \in 1..Len(cubeList) :
               j # k => cubeList[j].vertexUniform # cubeList[k].vertexUniform
        /\ \A s \in PoolSlots :
               (s \in LiveSlots /\ s \notin FreeSlots)
                   \/ (s \in FreeSlots /\ s \notin LiveSlots)
        /\ Bufferless \cap (LiveSlots \cup FreeSlots) = {}
        /\ Len(cubeList) < cubeNum

\* a growing rebuild failed after it had recycled one slot, on the createBuffer
\* call for the next
C17_Witness ==
    /\ resetStatus = "threw"
    /\ listsReady
    /\ cubeNum = 2
    /\ Len(cubeList) = 1
    /\ Cardinality(PoolSlots) = 1
    /\ Cardinality(Bufferless) = 1
    /\ cubeUniformList = <<>>
    /\ time >= 1

\* the slots of the objects of a list, in list order
SlotsOf(list) == [k \in 1..Len(list) |-> list[k].vertexUniform]

\* C18: a tick keeps the live list's objects, their order, their slots and their
\* scale, and leaves the free list alone; the bindings and the free list change
\* only in steps that are resetInstance calls.
C18_TickKeepsPool ==
    [][ /\ time' # time =>
            /\ SlotsOf(cubeList') = SlotsOf(cubeList)
            /\ \A k \in 1..Len(cubeList) : cubeList'[k].scale = cubeList[k].scale
            /\ cubeUniformList' = cubeUniformList
            /\ poolCreated' = poolCreated
            /\ created' = created
        /\ (SlotsOf(cubeList') # SlotsOf(cubeList)
              \/ cubeUniformList' # cubeUniformList) =>
            /\ time' = time
            /\ frameLog' = frameLog
            /\ resetStatus' \in {"returned", "threw"} ]_vars

\* ticks ran on a pool with a rotated slot order
C18_Witness ==
    /\ time >= 2
    /\ Len(frameLog) >= 1
    /\ Len(cubeList) >= 2
    /\ SlotsOf(cubeList)[1] > SlotsOf(cubeList)[2]
    /\ cubeList[2].rotY >= 2

\* C19: whenever resetInstance has run, it ran on lists that init had already
\* created.
C19_ResetOnInitialisedLists ==
    resetStatus # "none" => listsReady

\* C20: the light helper's slot is bound to no pooled object, is not on the free
\* list and is no pool slot; the pass-2 write goes to it and no pass-1 call
\* touches it.
C20_HelperSlotOwn ==
    /\ lightHelper # NULL =>
           /\ lightHelper \notin LiveSlots
           /\ lightHelper \notin FreeSlots
           /\ lightHelper \notin poolCreated
    /\ \A k \in 1..Len(frameLog) :
           /\ (frameLog[k].pass = 2 /\ frameLog[k].op = "writeUniform") =>
                  /\ frameLog[k].slot = lightHelper
                  /\ \A j \in 1..Len(frameLog) :
                         frameLog[j].pass = 1 => frameLog[j].slot # frameLog[k].slot
           /\ frameLog[k].pass = 1 => frameLog[k].slot # lightHelper
    /\ frameLog # <<>> => lightHelper # NULL

\* the helper's slot was constructed between pool slots, and ticks have run on
\* a rebuilt pool with a non-empty free list
C20_Witness ==
    /\ lightHelper = 2
    /\ poolCreated = {1, 3}
    /\ Len(cubeList) = 1
    /\ Len(cubeUniformList) = 1
    /\ time >= 2
    /\ TickCompleted(frameLog)
    /\ Len(Calls(frameLog, "writeUniform", 1)) = 1
    /\ Len(Calls(frameLog, "writeUniform", 2)) = 1

====
